---- MODULE Spec2Model ----
(***************************************************************************)
(* Order intake, stock bookkeeping and payment transactions of the        *)
(* storefront backend (OrderController, TransactionController).           *)
(*                                                                         *)
(* Every HTTP request is a process.  A handler is translated await by      *)
(* await: each database call is one atomic step, and the synchronous code  *)
(* that follows a call up to the next await belongs to the same step.      *)
(* Steps of different requests interleave freely, as they do on the Node   *)
(* event loop in front of a database without transactions.                 *)
(***************************************************************************)
EXTENDS Integers, Sequences, FiniteSets, TLC

\* Number of HTTP requests handled in one behaviour.
MaxReq == 3
\* stock_quantity of every product before the first request.
InitStock == 2
\* Largest quantity of one order line.
MaxQty == 2
\* Number of requests being handled at the same time.
MaxInFlight == 2
\* Number of requests in one behaviour when every call of createOrder may fail.
MaxReqFaults == 2
\* Number of days one behaviour may span.
MaxDays == 2
\* order.controller.ts:647: the largest sequence of an order number.
MaxSequence == 999
\* order.controller.ts:883: the largest total an order may have.
MaxTotal == 100000

None == "none"

\* Rows of the products table, and one id that is in no row.
Products == {"p1"}
MissingProduct == "px"

Req == 1..MaxReq

VARIABLES
  cfg,           \* environment: is the RPC deployed, may calls fail, request inputs
  stock,         \* products.stock_quantity
  in_stock,      \* products.in_stock
  orders,        \* orders table, keyed by the id of the request that inserted the row
  order_items,   \* order_items rows of each order, in insertion order
  transactions,  \* transactions table; a row's id is its index
  req,           \* the inputs of each request (req.params, req.body)
  loc,           \* each handler's position, local variables and response
  log,           \* what each request did, in the order it did it
  decs,          \* per order line: the stock decrements applied, by mechanism
                 \* ("fallback_stale": written from a stock read that was out of date)
  restores,      \* per order line: how many times its quantity was added back
  today          \* the day on the server's clock

vars == <<cfg, stock, in_stock, orders, order_items, transactions, req, loc, log,
          decs, restores, today>>

----------------------------------------------------------------------------
\* Pure expressions of the handlers.

\* Variant: a reference alone makes the order paid.
OrderPaymentStatusByReference(method, ref) ==
  IF ref # None THEN "paid" ELSE "pending"

\* order.controller.ts:933 and :1148
OrderPaymentStatus(method, ref) ==
  IF method = "paystack" /\ ref # None THEN "paid" ELSE "pending"

\* order.controller.ts:1032
SufficientStock(currentStock, quantity) == currentStock >= quantity

\* Variant: one unit is taken whatever the quantity of the line.
NewStockOneUnit(currentStock, quantity) == currentStock - 1

\* order.controller.ts:1033
NewStock(currentStock, quantity) == currentStock - quantity

\* Variant: a product with nothing left still counts as in stock.
NewInStockAtZero(quantity) == quantity >= 0

\* order.controller.ts:283, :530, :1034
NewInStock(quantity) == quantity > 0

\* order.controller.ts:282, :529
RestoredStock(currentStock, quantity) == currentStock + quantity

\* order.controller.ts:513 (only the is_pre_order column is read)
CancelRestores(existing) ==
  existing.status # "cancelled" /\ ~existing.is_pre_order

\* order.controller.ts:250
IsPreOrder(order) == order.is_pre_order \/ order.sa_is_pre_order

\* order.controller.ts:29-40, :159-170, :204-215, :1571-1582: the order as the
\* readers report it; the orders table has no value in its own pre-order
\* columns (:908-934)
WithPreOrderFlag(o, order) ==
  [id |-> o,
   is_pre_order |-> IsPreOrder(order),
   pre_order_shipping_option |-> order.sa_pre_order_shipping_option,
   estimated_arrival_date |-> order.sa_estimated_arrival_date]

\* order.controller.ts:259-262
StatusUpdateRestores(status, existing) ==
  /\ status = "cancelled" /\ existing.status # "cancelled"
  /\ ~IsPreOrder(existing)
  /\ existing.payment_status # "refunded"

\* order.controller.ts:268, :518
ItemRestorable(item) == item.product_id # None /\ item.quantity # 0

\* Variant: any value is taken, as long as there is one.
ValidPaymentStatusAnyValue(ps) == ps # None

\* order.controller.ts:411
ValidPaymentStatus(ps) == ps \in {"pending", "paid", "failed", "refunded"}

\* Variant: everything not yet refunded may be refunded.
RefundableUnlessRefunded(payment_status) == payment_status # "refunded"

\* transaction.controller (part_001):325
Refundable(payment_status) == payment_status = "paid"

\* Variant: the order of every linked transaction is updated.
RefundTouchesOrderAlways(order_id, order_status) == order_id # 0

\* transaction.controller (part_001):354-358
RefundTouchesOrder(order_id, order_status) ==
  order_id # 0 /\ order_status \in {"cancelled", "pending"}

\* order.controller.ts:1007
StockStepRuns(is_pre_order) == ~is_pre_order

\* Variant: the fallback runs whenever the RPC returned, also without an error.
FallsBackAlways(rpcOutcome) == rpcOutcome \in {"missing", "ok"}

\* order.controller.ts:1018-1020: the RPC error that sends the handler to the fallback
FallsBack(rpcOutcome) == rpcOutcome = "missing"

\* Variant: an error of the transaction step is thrown on to the outer catch.
SwallowedButTransaction(step) ==
  step \in {"stock", "customer_email", "coupon", "admin_email", "notification"}

\* order.controller.ts:1121-1124, :1240-1243, :1292-1300, :1323-1326, :1350-1357,
\* :1380-1383: the steps whose failure is caught and logged
Swallowed(step) ==
  step \in {"stock", "transaction", "customer_email", "coupon", "admin_email",
            "notification"}

\* order.controller.ts:1254-1262: who gets the confirmation email
CustomerEmail(cust) ==
  CASE cust = "user" -> "u@x" [] cust = "guest" -> "a@x" [] OTHER -> None

\* order.controller.ts:478: shipping_address.email of the stored order
ShippingEmail(cust) == IF cust = "guest" THEN "a@x" ELSE None

\* String.prototype.toLowerCase on the addresses of the model
ToLower(s) == CASE s = "A@X" -> "a@x" [] OTHER -> s

\* Variant: a request without email may proceed.
OwnershipStatusEmailOptional(order, email) ==
  IF order.user_id = None /\ email # None
       /\ (ShippingEmail(order.cust) = None
             \/ ToLower(ShippingEmail(order.cust)) # ToLower(email))
  THEN 403 ELSE 0

\* order.controller.ts:476-491: 0 when the request may proceed
OwnershipStatus(order, email) ==
  IF order.user_id = None /\ email # None
  THEN IF ShippingEmail(order.cust) = None
          \/ ToLower(ShippingEmail(order.cust)) # ToLower(email)
       THEN 403 ELSE 0
  ELSE IF order.user_id = None /\ email = None THEN 400 ELSE 0

----------------------------------------------------------------------------
\* Order numbers.  A number is the text before its digits and the digits.

NoNumber == [prefix |-> "", digits |-> <<>>]

RECURSIVE Digits(_)
\* String(n) of a non-negative integer, digit by digit
Digits(n) == IF n < 10 THEN <<n>> ELSE Digits(n \div 10) \o <<n % 10>>

RECURSIVE PadStart(_, _, _)
\* String.prototype.padStart
PadStart(str, len, fill) ==
  IF Len(str) >= len THEN str ELSE PadStart(<<fill>> \o str, len, fill)

\* order.controller.ts:624-628: DDMMYY of the day-th of January 2026
DateStr(day) == PadStart(Digits(day), 2, 0) \o PadStart(Digits(1), 2, 0) \o <<2, 6>>

\* order.controller.ts:643: order_number.match(/ORD-(\d{3})/)
Matches(number) == number.prefix = "ORD-" /\ Len(number.digits) >= 3

\* order.controller.ts:645: parseInt(match[1])
ParseInt(number) ==
  100 * number.digits[1] + 10 * number.digits[2] + number.digits[3]

\* order.controller.ts:640-649: lastNumber is NoNumber when there is no last order
Sequence(lastNumber) ==
  IF lastNumber # NoNumber /\ Matches(lastNumber)
  THEN IF ParseInt(lastNumber) + 1 > MaxSequence THEN 1 ELSE ParseInt(lastNumber) + 1
  ELSE 1

\* order.controller.ts:652-653
OrderNumber(sequence, day) ==
  [prefix |-> "ORD-", digits |-> PadStart(Digits(sequence), 3, 0) \o DateStr(day)]

\* order.controller.ts:662-663: the last three digits of the clock's milliseconds
ClockNumber(millis, day) == [prefix |-> "ORD-", digits |-> millis \o DateStr(day)]

----------------------------------------------------------------------------
\* Amounts.

\* order.controller.ts:827-830 and :960-961: item.subtotal is not sent
ItemSubtotal(item) ==
  item.unit_price * (IF item.quantity = 0 THEN 1 ELSE item.quantity)

RECURSIVE SumSubtotals(_)
SumSubtotals(items) ==
  IF items = <<>> THEN 0 ELSE ItemSubtotal(Head(items)) + SumSubtotals(Tail(items))

\* order.controller.ts:822-832
ActualSubtotal(request) ==
  IF request.subtotal = 0 THEN SumSubtotals(request.items) ELSE request.subtotal

\* Variant: the total is the one the request sends.
FinalTotalAsSent(request) == request.total

\* order.controller.ts:837-840
FinalTotal(request) ==
  ActualSubtotal(request) + request.delivery_fee + request.tax - request.discount

\* Variant: the computed total has no ceiling.
TotalStatusNoCeiling(request) ==
  IF FinalTotal(request) < 0 THEN 400 ELSE 0

\* order.controller.ts:868-903: 0 when the total is accepted
TotalStatus(request) ==
  IF FinalTotal(request) < 0 THEN 400
  ELSE IF FinalTotal(request) > MaxTotal THEN 400
  ELSE 0

----------------------------------------------------------------------------
\* Rows and records.

NoOrder ==
  [present |-> FALSE, status |-> None, payment_status |-> None,
   is_pre_order |-> FALSE, sa_is_pre_order |-> FALSE, user_id |-> None,
   cust |-> None, sa_ref |-> None, order_number |-> NoNumber, day |-> 0,
   created |-> 0, subtotal |-> 0, discount |-> 0, tax |-> 0, shipping_fee |-> 0,
   total |-> 0, notes |-> <<>>, sa_pre_order_shipping_option |-> None,
   sa_estimated_arrival_date |-> None]

NoExisting ==
  [status |-> None, payment_status |-> None, is_pre_order |-> FALSE,
   sa_is_pre_order |-> FALSE, items |-> <<>>, order_id |-> 0, notes |-> <<>>]

\* order_number_or_id of a tracking request: the text is compared with the
\* order_number column and with the id column; number and id say what it
\* equals in each.
NoKey == [number |-> NoNumber, id |-> 0]

\* A value of the request body that is not a string (a JSON number).
NotAString == "<number>"

IdleReq ==
  [kind |-> "idle", id |-> 0, items |-> <<>>, is_pre_order |-> FALSE,
   payment_method |-> None, payment_reference |-> None, cust |-> None,
   coupon |-> FALSE, status |-> None, email |-> None, order_number |-> NoNumber,
   delivery_address |-> FALSE, total |-> 0, subtotal |-> 0, delivery_fee |-> 0,
   tax |-> 0, discount |-> 0, cancellation_reason |-> None,
   order_number_or_id |-> NoKey, da_is_pre_order |-> FALSE,
   pre_order_shipping_option |-> None, estimated_arrival_date |-> None,
   user_id |-> None]

IdleLoc ==
  [pc |-> "idle", resp |-> 0, i |-> 0, currentStock |-> 0,
   existing |-> NoExisting, found |-> 0, number |-> NoNumber, data |-> 0,
   reported |-> {}]

Item(p, q) ==
  [product_id |-> p, quantity |-> q, product_name |-> "name", unit_price |-> 5]

\* A call fails only where the environment of the specification lets it.
Outcomes(call) == IF call \in cfg.faulty THEN {"ok", "fail"} ELSE {"ok"}

Entry(step, outcome) == [step |-> step, ok |-> outcome = "ok"]

Say(r, step, outcome) == [log EXCEPT ![r] = Append(@, Entry(step, outcome))]

At(r, kind, pc) == req[r].kind = kind /\ loc[r].pc = pc

Goto(r, pc) == [loc EXCEPT ![r].pc = pc]

Respond(r, code) == [loc EXCEPT ![r].pc = "done", ![r].resp = code]

\* After a step of createOrder: on, unless it failed and the failure is thrown
\* to the handler's outer catch (order.controller.ts:1398-1415).
Continue(r, step, outcome, next) ==
  IF outcome = "fail" /\ ~Swallowed(step) THEN Respond(r, 500) ELSE next

\* The webhook's row for a reference paid before the order is placed.
WebhookTransaction(ref) ==
  [order_id |-> 0, transaction_reference |-> ref, paystack_reference |-> ref,
   status |-> "paid", payment_status |-> "paid", amount |-> 5, by |-> 0]

----------------------------------------------------------------------------
\* Initial states.  cfg is fixed by each specification.

InitWith(c, txs) ==
  /\ cfg = c
  /\ stock = [p \in Products |-> InitStock]
  /\ in_stock = [p \in Products |-> NewInStock(InitStock)]
  /\ orders = [o \in Req |-> NoOrder]
  /\ order_items = [o \in Req |-> <<>>]
  /\ transactions = txs
  /\ req = [r \in Req |-> IdleReq]
  /\ loc = [r \in Req |-> IdleLoc]
  /\ log = [r \in Req |-> <<>>]
  /\ decs = [o \in Req |-> <<>>]
  /\ restores = [o \in Req |-> <<>>]
  /\ today = 1

----------------------------------------------------------------------------
\* Arrival of requests.  Slots are used in order; an order's id is the slot of
\* the createOrder request that inserts it.

NextSlot(r) ==
  /\ r <= cfg.requests
  /\ req[r].kind = "idle" /\ \A s \in 1..(r - 1) : req[s].kind # "idle"

OrderIds(r) == {o \in 1..(r - 1) : req[o].kind = "createOrder"}

InFlight == {s \in Req : loc[s].pc \notin {"idle", "done"}}

Begin(r, request, pc) ==
  /\ NextSlot(r)
  /\ Cardinality(InFlight) < cfg.inflight
  /\ req' = [req EXCEPT ![r] = request]
  /\ loc' = [loc EXCEPT ![r].pc = pc]
  /\ UNCHANGED <<cfg, today, stock, in_stock, orders, order_items, transactions, log,
                 decs, restores>>

ReceiveCreateOrder(r) ==
  \E body \in cfg.bodies : Begin(r, body, "co_validate")

ReceiveCancelOrder(r) ==
  \E o \in OrderIds(r), email \in cfg.emails, reason \in cfg.reasons :
    Begin(r, [IdleReq EXCEPT !.kind = "cancelOrder", !.id = o, !.email = email,
                             !.cancellation_reason = reason],
          "ca_fetch")

ReceiveUpdateOrderStatus(r) ==
  \E o \in OrderIds(r), status \in cfg.statuses :
    Begin(r, [IdleReq EXCEPT !.kind = "updateOrderStatus", !.id = o,
                             !.status = status],
          "us_fetch")

ReceiveUpdatePaymentStatus(r) ==
  \E o \in OrderIds(r), ps \in cfg.payment_statuses :
    Begin(r, [IdleReq EXCEPT !.kind = "updatePaymentStatus", !.id = o,
                             !.status = ps],
          "up_update")

ReceiveRefundTransaction(r) ==
  \E t \in 1..Len(transactions) :
    Begin(r, [IdleReq EXCEPT !.kind = "refundTransaction", !.id = t], "rf_fetch")

----------------------------------------------------------------------------
\* OrderController.createOrder

\* Variant: the orphaned order is left in place.
OrphanKept(outcome, row) == row

\* order.controller.ts:984: the row after the delete
OrphanDeleted(outcome, row) == IF outcome = "ok" THEN NoOrder ELSE row

\* String.prototype.trim on the product ids of the model
Trim(str) == CASE str = " " -> "" [] OTHER -> str

\* order.controller.ts:762: id && id.trim() !== '' does not hold
Blank(id) == id = None \/ id = "" \/ Trim(id) = ""

\* order.controller.ts:712-800: 0 when the request is accepted.  A total that
\* is missing and a total of 0 are both falsy (:731).
ValidationStatus(request) ==
  IF request.items = <<>> THEN 400
  ELSE IF ~request.delivery_address THEN 400
  ELSE IF request.total = 0 \/ request.total <= 0 THEN 400
  ELSE IF \E i \in 1..Len(request.items) : Blank(request.items[i].product_id)
       THEN 400
  ELSE IF \E i \in 1..Len(request.items) :
            request.items[i].product_id \notin Products
       THEN 400
  ELSE 0

\* created_at of a new row: later than that of every row in the table
NewCreated ==
  LET rows == {o \in Req : orders[o].present}
  IN IF rows = {} THEN 1
     ELSE 1 + (CHOOSE c \in {orders[o].created : o \in rows} :
                 \A o \in rows : orders[o].created <= c)

\* order.controller.ts:631-638: order_number of the newest order created since
\* the start of today, NoNumber when there is none
LastOrderNumber ==
  LET rows == {o \in Req : orders[o].present /\ orders[o].day >= today}
  IN IF rows = {} THEN NoNumber
     ELSE orders[CHOOSE o \in rows :
                   \A o2 \in rows : orders[o2].created <= orders[o].created]
            .order_number

\* order.controller.ts:621-665: the numbers the call may return.  An error of
\* the query is not looked at and leaves lastOrder undefined (:632); an exception
\* leads to the number made from the clock (:654-664).
generateOrderNumber ==
  {OrderNumber(Sequence(LastOrderNumber), today)}
    \cup (IF "number" \in cfg.faulty THEN {OrderNumber(Sequence(NoNumber), today)}
          ELSE {})
    \cup (IF "number_throw" \in cfg.faulty
          THEN {ClockNumber(millis, today) : millis \in {<<0, 0, 0>>, <<9, 9, 9>>}}
          ELSE {})

\* Variant: the row is written without its order.
OrderItemRowNoOrder(o, item) ==
  [order_id |-> 0, product_id |-> item.product_id,
   product_name |-> item.product_name, quantity |-> item.quantity,
   unit_price |-> item.unit_price, total_price |-> ItemSubtotal(item)]

\* order.controller.ts:958-973
OrderItemRow(o, item) ==
  [order_id |-> o, product_id |-> item.product_id,
   product_name |-> item.product_name, quantity |-> item.quantity,
   unit_price |-> item.unit_price, total_price |-> ItemSubtotal(item)]

OrderItemRows(o, items) == [i \in 1..Len(items) |-> OrderItemRow(o, items[i])]

\* order.controller.ts:908-934: the inserted row.  The insert names no is_pre_order
\* column; the flag is stored inside shipping_address only (:813-817).
\* order.controller.ts:809-818: the pre-order keys of shipping_address.  The
\* keys of delivery_address are copied, and those of a pre-order are written
\* over them; da_is_pre_order is the is_pre_order key of delivery_address, its
\* other pre-order keys are left out.  None is a key that is null or absent.
ShippingAddress(request) ==
  IF request.is_pre_order
  THEN [is_pre_order |-> TRUE,
        pre_order_shipping_option |-> request.pre_order_shipping_option,
        estimated_arrival_date |-> request.estimated_arrival_date]
  ELSE [is_pre_order |-> request.da_is_pre_order,
        pre_order_shipping_option |-> None,
        estimated_arrival_date |-> None]

\* order.controller.ts:926-928: the request sends no notes of its own
OrderNotes(request) == IF request.is_pre_order THEN <<"[PRE-ORDER]">> ELSE <<>>

\* order.controller.ts:908-934
OrderRow(request, number) ==
  [present |-> TRUE, status |-> "pending",
   payment_status |-> OrderPaymentStatus(request.payment_method,
                                         request.payment_reference),
   is_pre_order |-> FALSE, sa_is_pre_order |-> ShippingAddress(request).is_pre_order,
   user_id |-> IF request.cust = "user" THEN "u1" ELSE None,
   cust |-> request.cust, sa_ref |-> request.payment_reference,
   order_number |-> number, day |-> today, created |-> NewCreated,
   subtotal |-> ActualSubtotal(request), discount |-> request.discount,
   tax |-> request.tax, shipping_fee |-> request.delivery_fee,
   total |-> FinalTotal(request), notes |-> OrderNotes(request),
   sa_pre_order_shipping_option |->
     ShippingAddress(request).pre_order_shipping_option,
   sa_estimated_arrival_date |-> ShippingAddress(request).estimated_arrival_date]

\* Variant: the new row is not tied to the order.
TransactionRowUnlinked(r, request) ==
  [order_id |-> 0,
   transaction_reference |->
     IF request.payment_reference # None THEN request.payment_reference
     ELSE "TXN-" \o ToString(r),
   paystack_reference |-> request.payment_reference,
   status |-> OrderPaymentStatus(request.payment_method, request.payment_reference),
   payment_status |->
     OrderPaymentStatus(request.payment_method, request.payment_reference),
   amount |-> FinalTotal(request), by |-> r]

\* order.controller.ts:1162-1171, :1217
TransactionRow(r, request) ==
  [order_id |-> r,
   transaction_reference |->
     IF request.payment_reference # None THEN request.payment_reference
     ELSE "TXN-" \o ToString(r),
   paystack_reference |-> request.payment_reference,
   status |-> OrderPaymentStatus(request.payment_method, request.payment_reference),
   payment_status |->
     OrderPaymentStatus(request.payment_method, request.payment_reference),
   amount |-> FinalTotal(request), by |-> r]

\* order.controller.ts:1189-1194: both filters apply; maybeSingle yields a row only
\* when exactly one matches.
Lookup(ref) ==
  LET hits == {t \in 1..Len(transactions) :
                 /\ transactions[t].transaction_reference = ref
                 /\ transactions[t].paystack_reference = ref}
  IN IF Cardinality(hits) = 1 THEN CHOOSE t \in hits : TRUE ELSE 0

\* Variant: the RPC reports a decrement whatever the stock.
RpcAppliesAlways(currentStock, quantity) == TRUE

\* decrement_product_stock: the test it makes before it decrements
RpcApplies(currentStock, quantity) == currentStock >= quantity

\* decrement_product_stock(product_id_param, quantity_param): decrement only if
\* stock >= quantity, in one statement (order.controller.ts:1010-1011).
RpcStock(currentStock, quantity) ==
  IF currentStock >= quantity THEN currentStock - quantity ELSE currentStock

\* Variant: the stock step is skipped for every order.
AfterItemsNoStock(request) == "co_tx"

\* order.controller.ts:1005-1007
AfterItems(request) ==
  IF StockStepRuns(request.is_pre_order) /\ request.items # <<>>
  THEN "co_rpc" ELSE "co_tx"

\* order.controller.ts:1305-1307
AfterCustomerEmail(request) ==
  IF request.coupon THEN "co_coupon" ELSE "co_admin_email"

\* order.controller.ts:1268
AfterTransaction(request) ==
  IF CustomerEmail(request.cust) # None THEN "co_customer_email"
  ELSE AfterCustomerEmail(request)

\* order.controller.ts:1009: the for loop's next iteration, or the code after it
NextItem(r) ==
  IF loc[r].i < Len(req[r].items)
  THEN [loc EXCEPT ![r].pc = "co_rpc", ![r].i = @ + 1]
  ELSE [loc EXCEPT ![r].pc = "co_tx"]

\* order.controller.ts:805-903: with the order number in hand, the totals are
\* computed and checked; the insert of the order is the next call.
WithNumber(r, number) ==
  IF TotalStatus(req[r]) # 0 THEN Respond(r, TotalStatus(req[r]))
  ELSE [loc EXCEPT ![r].pc = "co_insert_order", ![r].number = number]

Totals(r) ==
  IF TotalStatus(req[r]) # 0 THEN <<Entry("totals", "fail")>> ELSE <<>>

\* order.controller.ts:711-805: a request that brings its order_number goes on
\* to the totals without another call.
CoValidate(r) ==
  /\ At(r, "createOrder", "co_validate")
  /\ \E outcome \in Outcomes("validate") :
       LET code == IF outcome = "fail" /\ ValidationStatus(req[r]) = 0 THEN 400
                   ELSE ValidationStatus(req[r])
       IN IF code # 0
          THEN /\ log' = Say(r, "validate", "fail")
               /\ loc' = Respond(r, code)
          ELSE IF req[r].order_number = NoNumber
          THEN /\ log' = Say(r, "validate", "ok")
               /\ loc' = Goto(r, "co_number")
          ELSE /\ log' = [log EXCEPT ![r] = @ \o <<Entry("validate", "ok")>>
                                               \o Totals(r)]
               /\ loc' = WithNumber(r, req[r].order_number)
  /\ UNCHANGED <<cfg, today, stock, in_stock, orders, order_items, transactions, req,
                 decs, restores>>

\* order.controller.ts:805 (generateOrderNumber, :621-665) to :903
CoNumber(r) ==
  /\ At(r, "createOrder", "co_number")
  /\ \E number \in generateOrderNumber :
       /\ log' = [log EXCEPT ![r] = @ \o <<Entry("number", "ok")>> \o Totals(r)]
       /\ loc' = WithNumber(r, number)
  /\ UNCHANGED <<cfg, today, stock, in_stock, orders, order_items, transactions, req,
                 decs, restores>>

CoInsertOrder(r) ==
  /\ At(r, "createOrder", "co_insert_order")
  /\ \E outcome \in Outcomes("order") :
       /\ log' = Say(r, "order", outcome)
       /\ IF outcome = "ok"
          THEN /\ orders' = [orders EXCEPT ![r] = OrderRow(req[r], loc[r].number)]
               /\ loc' = Goto(r, "co_insert_items")
          ELSE /\ loc' = Respond(r, 500)
               /\ UNCHANGED orders
  /\ UNCHANGED <<cfg, today, stock, in_stock, order_items, transactions, req, decs, restores>>

CoInsertItems(r) ==
  /\ At(r, "createOrder", "co_insert_items")
  /\ \E outcome \in Outcomes("items") :
       /\ log' = Say(r, "items", outcome)
       /\ IF outcome = "ok"
          THEN /\ order_items' = [order_items EXCEPT
                                   ![r] = OrderItemRows(r, req[r].items)]
               /\ decs' = [decs EXCEPT ![r] = [i \in 1..Len(req[r].items) |-> <<>>]]
               /\ restores' = [restores EXCEPT ![r] = [i \in 1..Len(req[r].items) |-> 0]]
               /\ loc' = [loc EXCEPT ![r].pc = AfterItems(req[r]), ![r].i = 1]
          ELSE /\ loc' = Goto(r, "co_delete")
               /\ UNCHANGED <<order_items, decs, restores>>
  /\ UNCHANGED <<cfg, today, stock, in_stock, orders, transactions, req>>

\* order.controller.ts:979-1001: the delete's result is not looked at
CoDeleteOrphan(r) ==
  /\ At(r, "createOrder", "co_delete")
  /\ \E outcome \in Outcomes("delete") :
       /\ log' = Say(r, "delete", outcome)
       /\ orders' = [orders EXCEPT ![r] = OrphanDeleted(outcome, @)]
  /\ loc' = Respond(r, 500)
  /\ UNCHANGED <<cfg, today, stock, in_stock, order_items, transactions, req, decs, restores>>

\* order.controller.ts:1012-1020, :1115-1119
CoRpc(r) ==
  /\ At(r, "createOrder", "co_rpc")
  /\ LET item == req[r].items[loc[r].i]
         p == item.product_id
     IN \E outcome \in (IF cfg.rpc THEN Outcomes("rpc") ELSE {"missing"}) :
          /\ IF outcome = "ok" /\ RpcApplies(stock[p], item.quantity)
             THEN /\ stock' = [stock EXCEPT ![p] = RpcStock(@, item.quantity)]
                  /\ in_stock' = [in_stock EXCEPT
                                    ![p] = RpcStock(stock[p], item.quantity) > 0]
                  /\ decs' = [decs EXCEPT ![r][loc[r].i] = Append(@, "rpc")]
             ELSE UNCHANGED <<stock, in_stock, decs>>
          /\ IF FallsBack(outcome)
             THEN /\ loc' = Goto(r, "co_fb_read")
                  /\ UNCHANGED log
             ELSE /\ loc' = Continue(r, "stock", outcome, NextItem(r))
                  /\ log' = Say(r, "stock", outcome)
  /\ UNCHANGED <<cfg, today, orders, order_items, transactions, req, restores>>

\* order.controller.ts:1022-1032, :1106-1113
CoFallbackRead(r) ==
  /\ At(r, "createOrder", "co_fb_read")
  /\ LET item == req[r].items[loc[r].i]
     IN \E outcome \in Outcomes("fallback_read") :
          IF outcome = "ok" /\ SufficientStock(stock[item.product_id], item.quantity)
          THEN /\ loc' = [loc EXCEPT ![r].pc = "co_fb_write",
                                     ![r].currentStock = stock[item.product_id]]
               /\ UNCHANGED log
          ELSE /\ loc' = Continue(r, "stock", "fail", NextItem(r))
               /\ log' = Say(r, "stock", "fail")
  /\ UNCHANGED <<cfg, today, stock, in_stock, orders, order_items, transactions, req,
                 decs, restores>>

\* order.controller.ts:1033-1105: the update carries the stock read before, and
\* applies only to a row whose stock_quantity is still >= quantity (:1043).
CoFallbackWrite(r) ==
  /\ At(r, "createOrder", "co_fb_write")
  /\ LET item == req[r].items[loc[r].i]
         p == item.product_id
         newStock == NewStock(loc[r].currentStock, item.quantity)
     IN \E outcome \in Outcomes("fallback_write") :
          IF outcome = "ok" /\ stock[p] >= item.quantity
          THEN /\ stock' = [stock EXCEPT ![p] = newStock]
               /\ in_stock' = [in_stock EXCEPT ![p] = NewInStock(newStock)]
               /\ decs' = [decs EXCEPT ![r][loc[r].i] =
                             Append(@, IF loc[r].currentStock = stock[p]
                                       THEN "fallback" ELSE "fallback_stale")]
               /\ log' = [log EXCEPT ![r] =
                            @ \o <<Entry("stock", "ok")>>
                              \o (IF newStock = 0 THEN <<Entry("oos_alert", "ok")>>
                                  ELSE <<>>)]
               /\ loc' = [NextItem(r) EXCEPT ![r].currentStock = 0]
          ELSE /\ log' = Say(r, "stock", "fail")
               /\ loc' = Continue(r, "stock", "fail",
                                  [NextItem(r) EXCEPT ![r].currentStock = 0])
               /\ UNCHANGED <<stock, in_stock, decs>>
  /\ UNCHANGED <<cfg, today, orders, order_items, transactions, req, restores>>

\* order.controller.ts:1146-1239: without a reference the insert is the next call;
\* with one, the lookup comes first.
CoTransaction(r) ==
  /\ At(r, "createOrder", "co_tx")
  /\ \E outcome \in Outcomes("transaction") :
       IF req[r].payment_reference = None
       THEN /\ transactions' = IF outcome = "ok"
                               THEN Append(transactions, TransactionRow(r, req[r]))
                               ELSE transactions
            /\ log' = Say(r, "transaction", outcome)
            /\ loc' = Continue(r, "transaction", outcome,
                               Goto(r, AfterTransaction(req[r])))
       ELSE /\ loc' = [loc EXCEPT
                         ![r].found = IF outcome = "ok"
                                      THEN Lookup(req[r].payment_reference) ELSE 0,
                         ![r].pc = "co_tx_write"]
            /\ UNCHANGED <<transactions, log>>
  /\ UNCHANGED <<cfg, today, stock, in_stock, orders, order_items, req, decs, restores>>

\* order.controller.ts:1196-1227
CoTransactionWrite(r) ==
  /\ At(r, "createOrder", "co_tx_write")
  /\ \E outcome \in Outcomes("transaction") :
       /\ transactions' =
            IF outcome # "ok" THEN transactions
            ELSE IF loc[r].found # 0
                 THEN [transactions EXCEPT ![loc[r].found].order_id = r]
                 ELSE Append(transactions, TransactionRow(r, req[r]))
       /\ log' = Say(r, "transaction", outcome)
       /\ loc' = Continue(r, "transaction", outcome,
                          Goto(r, AfterTransaction(req[r])))
  /\ UNCHANGED <<cfg, today, stock, in_stock, orders, order_items, req, decs, restores>>

\* A step that only reports: an email, the coupon RPC.
CoReport(r, pc, step, next) ==
  /\ At(r, "createOrder", pc)
  /\ \E outcome \in Outcomes(step) :
       /\ log' = Say(r, step, outcome)
       /\ loc' = Continue(r, step, outcome, Goto(r, next))
  /\ UNCHANGED <<cfg, today, stock, in_stock, orders, order_items, transactions, req,
                 decs, restores>>

\* order.controller.ts:1268-1303
CoCustomerEmail(r) ==
  CoReport(r, "co_customer_email", "customer_email", AfterCustomerEmail(req[r]))

\* order.controller.ts:1307-1327
CoCoupon(r) == CoReport(r, "co_coupon", "coupon", "co_admin_email")

\* order.controller.ts:1330-1357
CoAdminEmail(r) == CoReport(r, "co_admin_email", "admin_email", "co_notification")

\* order.controller.ts:1360-1397
CoNotification(r) ==
  /\ At(r, "createOrder", "co_notification")
  /\ \E outcome \in Outcomes("notification") :
       /\ log' = Say(r, "notification", outcome)
       /\ loc' = Continue(r, "notification", outcome, Respond(r, 200))
  /\ UNCHANGED <<cfg, today, stock, in_stock, orders, order_items, transactions, req,
                 decs, restores>>

createOrder(r) ==
  \/ CoValidate(r)
  \/ CoNumber(r)
  \/ CoInsertOrder(r)
  \/ CoInsertItems(r)
  \/ CoDeleteOrphan(r)
  \/ CoRpc(r)
  \/ CoFallbackRead(r)
  \/ CoFallbackWrite(r)
  \/ CoTransaction(r)
  \/ CoTransactionWrite(r)
  \/ CoCustomerEmail(r)
  \/ CoCoupon(r)
  \/ CoAdminEmail(r)
  \/ CoNotification(r)

----------------------------------------------------------------------------
\* Stock restoration, shared by cancelOrder (:517-549) and updateOrderStatus
\* (:267-302): per item, read the product, then write the sum.

Snapshot(o) ==
  [status |-> orders[o].status, payment_status |-> orders[o].payment_status,
   is_pre_order |-> orders[o].is_pre_order,
   sa_is_pre_order |-> orders[o].sa_is_pre_order,
   items |-> order_items[o], order_id |-> o, notes |-> orders[o].notes]

\* The first item at or after index i that the loop does not skip, 0 if none.
NextRestorable(items, i) ==
  LET rest == {j \in i..Len(items) : ItemRestorable(items[j])}
  IN IF rest = {} THEN 0 ELSE CHOOSE j \in rest : \A k \in rest : j <= k

\* A failed read is logged and the loop goes on to the next item (:299-301, :546-548).
RestoreRead(r, kind, pc, next, after) ==
  /\ At(r, kind, pc)
  /\ \E outcome \in Outcomes("restore_read") :
       LET j == NextRestorable(loc[r].existing.items, loc[r].i + 1)
       IN IF outcome = "ok"
          THEN /\ loc' = [loc EXCEPT
                            ![r].pc = next,
                            ![r].currentStock =
                              stock[loc[r].existing.items[loc[r].i].product_id]]
               /\ UNCHANGED log
          ELSE /\ loc' = [loc EXCEPT ![r].pc = IF j = 0 THEN after ELSE pc,
                                     ![r].i = j]
               /\ log' = Say(r, "restore", "fail")
  /\ UNCHANGED <<cfg, today, stock, in_stock, orders, order_items, transactions, req,
                 decs, restores>>

RestoreWrite(r, kind, pc, again, after) ==
  /\ At(r, kind, pc)
  /\ LET item == loc[r].existing.items[loc[r].i]
         restoredStock == RestoredStock(loc[r].currentStock, item.quantity)
         j == NextRestorable(loc[r].existing.items, loc[r].i + 1)
     IN /\ \E outcome \in Outcomes("restore_write") :
             /\ log' = Say(r, "restore", outcome)
             /\ IF outcome = "ok"
                THEN /\ stock' = [stock EXCEPT ![item.product_id] = restoredStock]
                     /\ in_stock' = [in_stock EXCEPT
                                       ![item.product_id] = NewInStock(restoredStock)]
                     /\ restores' = [restores EXCEPT ![req[r].id][loc[r].i] = @ + 1]
                ELSE UNCHANGED <<stock, in_stock, restores>>
        /\ loc' = [loc EXCEPT ![r].pc = IF j = 0 THEN after ELSE again,
                              ![r].i = j, ![r].currentStock = 0]
  /\ UNCHANGED <<cfg, today, orders, order_items, transactions, req, decs>>

----------------------------------------------------------------------------
\* OrderController.cancelOrder

\* order.controller.ts:498: the notes as fetched, with the reason after them
CancelledNotes(notes, cancellation_reason) ==
  IF cancellation_reason # None THEN Append(notes, "[CANCELLED]") ELSE notes

\* order.controller.ts:457-491
CaFetch(r) ==
  /\ At(r, "cancelOrder", "ca_fetch")
  /\ LET o == req[r].id
         code == IF ~orders[o].present THEN 500
                 ELSE OwnershipStatus(orders[o], req[r].email)
     IN loc' = IF code # 0 THEN Respond(r, code)
               ELSE [loc EXCEPT ![r].pc = "ca_update", ![r].existing = Snapshot(o)]
  /\ UNCHANGED <<cfg, today, stock, in_stock, orders, order_items, transactions, req, log,
                 decs, restores>>

\* order.controller.ts:494-515, :554-558
CaUpdate(r) ==
  /\ At(r, "cancelOrder", "ca_update")
  /\ LET o == req[r].id
         j == NextRestorable(loc[r].existing.items, 1)
     IN IF ~orders[o].present
        THEN /\ loc' = Respond(r, 500)
             /\ UNCHANGED orders
        ELSE /\ orders' = [orders EXCEPT
                               ![o].status = "cancelled",
                               ![o].notes = CancelledNotes(loc[r].existing.notes,
                                                           req[r].cancellation_reason)]
             /\ loc' = IF CancelRestores(loc[r].existing) /\ j # 0
                       THEN [loc EXCEPT ![r].pc = "ca_read", ![r].i = j]
                       ELSE Goto(r, "ca_email")
  /\ UNCHANGED <<cfg, today, stock, in_stock, order_items, transactions, req, log, decs,
                 restores>>

\* order.controller.ts:521-525
CaRead(r) == RestoreRead(r, "cancelOrder", "ca_read", "ca_write", "ca_email")

\* order.controller.ts:527-545
CaWrite(r) == RestoreWrite(r, "cancelOrder", "ca_write", "ca_read", "ca_email")

\* order.controller.ts:560-609
CaEmail(r) ==
  /\ At(r, "cancelOrder", "ca_email")
  /\ log' = IF CustomerEmail(orders[req[r].id].cust) # None
            THEN Say(r, "cancellation_email", "ok") ELSE log
  /\ loc' = Respond(r, 200)
  /\ UNCHANGED <<cfg, today, stock, in_stock, orders, order_items, transactions, req,
                 decs, restores>>

cancelOrder(r) == CaFetch(r) \/ CaUpdate(r) \/ CaRead(r) \/ CaWrite(r) \/ CaEmail(r)

----------------------------------------------------------------------------
\* OrderController.updateOrderStatus

\* order.controller.ts:238-265, :307-313
UsFetch(r) ==
  /\ At(r, "updateOrderStatus", "us_fetch")
  /\ LET o == req[r].id
         j == NextRestorable(order_items[o], 1)
     IN loc' = IF ~orders[o].present THEN Respond(r, 500)
               ELSE IF StatusUpdateRestores(req[r].status, Snapshot(o)) /\ j # 0
               THEN [loc EXCEPT ![r].pc = "us_read", ![r].i = j,
                                ![r].existing = Snapshot(o)]
               ELSE [loc EXCEPT ![r].pc = "us_update", ![r].existing = Snapshot(o)]
  /\ UNCHANGED <<cfg, today, stock, in_stock, orders, order_items, transactions, req, log,
                 decs, restores>>

\* order.controller.ts:274-278
UsRead(r) == RestoreRead(r, "updateOrderStatus", "us_read", "us_write", "us_update")

\* order.controller.ts:280-298
UsWrite(r) == RestoreWrite(r, "updateOrderStatus", "us_write", "us_read", "us_update")

\* order.controller.ts:316-332
UsUpdate(r) ==
  /\ At(r, "updateOrderStatus", "us_update")
  /\ LET o == req[r].id
     IN IF ~orders[o].present
        THEN /\ loc' = Respond(r, 500)
             /\ UNCHANGED orders
        ELSE /\ orders' = [orders EXCEPT ![o].status = req[r].status]
             /\ loc' = Goto(r, "us_email")
  /\ UNCHANGED <<cfg, today, stock, in_stock, order_items, transactions, req, log, decs,
                 restores>>

\* order.controller.ts:341-394
UsEmail(r) ==
  /\ At(r, "updateOrderStatus", "us_email")
  /\ log' = IF CustomerEmail(orders[req[r].id].cust) # None
            THEN Say(r, "status_email", "ok") ELSE log
  /\ loc' = Respond(r, 200)
  /\ UNCHANGED <<cfg, today, stock, in_stock, orders, order_items, transactions, req,
                 decs, restores>>

updateOrderStatus(r) ==
  UsFetch(r) \/ UsRead(r) \/ UsWrite(r) \/ UsUpdate(r) \/ UsEmail(r)

----------------------------------------------------------------------------
\* OrderController.updatePaymentStatus (order.controller.ts:406-448)

updatePaymentStatus(r) ==
  /\ At(r, "updatePaymentStatus", "up_update")
  /\ LET o == req[r].id
     IN IF ~ValidPaymentStatus(req[r].status)
        THEN /\ loc' = Respond(r, 400)
             /\ UNCHANGED orders
        ELSE IF ~orders[o].present
        THEN /\ loc' = Respond(r, 500)
             /\ UNCHANGED orders
        ELSE /\ orders' = [orders EXCEPT ![o].payment_status = req[r].status]
             /\ loc' = Respond(r, 200)
  /\ UNCHANGED <<cfg, today, stock, in_stock, order_items, transactions, req, log, decs,
                 restores>>

----------------------------------------------------------------------------
\* TransactionController.refundTransaction (part_001:301-384)

\* part_001:310: the joined order, as far as the handler reads it
JoinedOrder(t) ==
  LET o == transactions[t].order_id
  IN IF o # 0 /\ orders[o].present
     THEN [NoExisting EXCEPT !.status = orders[o].status,
                             !.payment_status = transactions[t].payment_status,
                             !.order_id = o]
     ELSE [NoExisting EXCEPT !.payment_status = transactions[t].payment_status]

\* part_001:306-337
RfFetch(r) ==
  /\ At(r, "refundTransaction", "rf_fetch")
  /\ loc' = IF ~Refundable(transactions[req[r].id].payment_status)
            THEN Respond(r, 400)
            ELSE [loc EXCEPT ![r].pc = "rf_update",
                             ![r].existing = JoinedOrder(req[r].id)]
  /\ UNCHANGED <<cfg, today, stock, in_stock, orders, order_items, transactions, req, log,
                 decs, restores>>

\* part_001:340-358, :369-375
RfUpdate(r) ==
  /\ At(r, "refundTransaction", "rf_update")
  /\ transactions' = [transactions EXCEPT ![req[r].id].payment_status = "refunded",
                                          ![req[r].id].status = "refunded"]
  /\ loc' = IF RefundTouchesOrder(loc[r].existing.order_id, loc[r].existing.status)
            THEN Goto(r, "rf_order") ELSE Respond(r, 200)
  /\ UNCHANGED <<cfg, today, stock, in_stock, orders, order_items, req, log, decs, restores>>

\* part_001:359-365: an update that matches no row changes nothing, and the
\* result of the update is not looked at
RfOrder(r) ==
  /\ At(r, "refundTransaction", "rf_order")
  /\ LET o == loc[r].existing.order_id
     IN \E outcome \in Outcomes("refund_order") :
          orders' = IF outcome = "ok" /\ orders[o].present
                    THEN [orders EXCEPT ![o].payment_status = "refunded"]
                    ELSE orders
  /\ loc' = Respond(r, 200)
  /\ UNCHANGED <<cfg, today, stock, in_stock, order_items, transactions, req, log, decs,
                 restores>>

refundTransaction(r) == RfFetch(r) \/ RfUpdate(r) \/ RfOrder(r)

----------------------------------------------------------------------------
\* OrderController.trackOrder (order.controller.ts:58-183)

ReceiveTrackOrder(r) ==
  \E key \in cfg.keys, email \in cfg.track_emails :
    Begin(r, [IdleReq EXCEPT !.kind = "trackOrder", !.order_number_or_id = key,
                             !.email = email],
          "tr_by_number")

\* order.controller.ts:139-145: the order's user email or its address email is
\* the email of the request, lowered and trimmed
EmailMatches(order, email) ==
  LET userEmail == IF order.user_id # None THEN ToLower(CustomerEmail(order.cust))
                   ELSE None
      deliveryEmail == IF ShippingEmail(order.cust) # None
                       THEN ToLower(ShippingEmail(order.cust)) ELSE None
      providedEmail == Trim(ToLower(email))
  IN \/ userEmail # None /\ userEmail = providedEmail
     \/ deliveryEmail # None /\ deliveryEmail = providedEmail

\* order.controller.ts:133-173: with the order in hand.  toLowerCase of an email
\* that is not a string throws, and the outer catch answers 500 (:174-181).
Tracked(r, o) ==
  IF req[r].email = NotAString THEN Respond(r, 500)
  ELSE IF ~EmailMatches(orders[o], req[r].email) THEN Goto(r, "tr_delay")
  ELSE [loc EXCEPT ![r].pc = "done", ![r].resp = 200, ![r].data = o,
                   ![r].reported = {WithPreOrderFlag(o, orders[o])}]

\* order.controller.ts:60-88, :109-121: maybeSingle answers with an error when
\* more than one row has the order_number.
TrByNumber(r) ==
  /\ At(r, "trackOrder", "tr_by_number")
  /\ LET rows == {o \in Req : /\ orders[o].present
                              /\ orders[o].order_number
                                   = req[r].order_number_or_id.number}
     IN loc' = IF req[r].order_number_or_id = NoKey \/ req[r].email = None
               THEN Respond(r, 400)
               ELSE IF Cardinality(rows) > 1 THEN Respond(r, 500)
               ELSE IF rows = {} THEN Goto(r, "tr_by_id")
               ELSE Tracked(r, CHOOSE o \in rows : TRUE)
  /\ UNCHANGED <<cfg, today, stock, in_stock, orders, order_items, transactions, req,
                 log, decs, restores>>

\* order.controller.ts:91-107, :123-131
TrById(r) ==
  /\ At(r, "trackOrder", "tr_by_id")
  /\ LET o == req[r].order_number_or_id.id
     IN loc' = IF o \in Req /\ orders[o].present THEN Tracked(r, o)
               ELSE Goto(r, "tr_delay")
  /\ UNCHANGED <<cfg, today, stock, in_stock, orders, order_items, transactions, req,
                 log, decs, restores>>

\* order.controller.ts:126-131, :150-157: after the delay, 'Order not found'
TrDelay(r) ==
  /\ At(r, "trackOrder", "tr_delay")
  /\ loc' = Respond(r, 404)
  /\ UNCHANGED <<cfg, today, stock, in_stock, orders, order_items, transactions, req,
                 log, decs, restores>>

trackOrder(r) == TrByNumber(r) \/ TrById(r) \/ TrDelay(r)

----------------------------------------------------------------------------
\* OrderController.getAllOrders, getOrderById, downloadOrderPDF: the readers.

ReceiveGetAllOrders(r) ==
  \E user_id \in cfg.user_ids :
    Begin(r, [IdleReq EXCEPT !.kind = "getAllOrders", !.user_id = user_id],
          "ga_fetch")

ReceiveGetOrderById(r) ==
  \E o \in OrderIds(r) :
    Begin(r, [IdleReq EXCEPT !.kind = "getOrderById", !.id = o], "go_fetch")

ReceiveDownloadOrderPDF(r) ==
  \E o \in OrderIds(r) :
    Begin(r, [IdleReq EXCEPT !.kind = "downloadOrderPDF", !.id = o], "dp_fetch")

\* order.controller.ts:8-55: the rows, those of one user when user_id is given;
\* their order in the answer is left out
getAllOrders(r) ==
  /\ At(r, "getAllOrders", "ga_fetch")
  /\ LET data == {o \in Req : /\ orders[o].present
                              /\ req[r].user_id # None
                                   => orders[o].user_id = req[r].user_id}
     IN loc' = [loc EXCEPT ![r].pc = "done", ![r].resp = 200,
                           ![r].reported = {WithPreOrderFlag(o, orders[o]) : o \in data}]
  /\ UNCHANGED <<cfg, today, stock, in_stock, orders, order_items, transactions, req,
                 log, decs, restores>>

\* order.controller.ts:187-229: single() reports an error when there is no row
getOrderById(r) ==
  /\ At(r, "getOrderById", "go_fetch")
  /\ LET o == req[r].id
     IN loc' = IF ~orders[o].present THEN Respond(r, 500)
               ELSE [loc EXCEPT ![r].pc = "done", ![r].resp = 200, ![r].data = o,
                                ![r].reported = {WithPreOrderFlag(o, orders[o])}]
  /\ UNCHANGED <<cfg, today, stock, in_stock, orders, order_items, transactions, req,
                 log, decs, restores>>

\* order.controller.ts:1553-1582: with the order row in hand; the items are
\* fetched once more when the row came without any
Fetched(r, o) ==
  [loc EXCEPT ![r].pc = IF order_items[o] = <<>> THEN "dp_items" ELSE "dp_pdf",
              ![r].data = o,
              ![r].reported = {WithPreOrderFlag(o, orders[o])}]

\* order.controller.ts:1524-1532
DpFetch(r) ==
  /\ At(r, "downloadOrderPDF", "dp_fetch")
  /\ loc' = IF orders[req[r].id].present THEN Fetched(r, req[r].id)
            ELSE Goto(r, "dp_retry")
  /\ UNCHANGED <<cfg, today, stock, in_stock, orders, order_items, transactions, req,
                 log, decs, restores>>

\* order.controller.ts:1535-1551, :1569
DpRetry(r) ==
  /\ At(r, "downloadOrderPDF", "dp_retry")
  /\ loc' = IF orders[req[r].id].present THEN Fetched(r, req[r].id)
            ELSE Respond(r, 500)
  /\ UNCHANGED <<cfg, today, stock, in_stock, orders, order_items, transactions, req,
                 log, decs, restores>>

\* order.controller.ts:1554-1566
DpItems(r) ==
  /\ At(r, "downloadOrderPDF", "dp_items")
  /\ loc' = Goto(r, "dp_pdf")
  /\ UNCHANGED <<cfg, today, stock, in_stock, orders, order_items, transactions, req,
                 log, decs, restores>>

\* order.controller.ts:1596-1612
DpPdf(r) ==
  /\ At(r, "downloadOrderPDF", "dp_pdf")
  /\ \E outcome \in Outcomes("pdf") :
       loc' = Respond(r, IF outcome = "ok" THEN 200 ELSE 500)
  /\ UNCHANGED <<cfg, today, stock, in_stock, orders, order_items, transactions, req,
                 log, decs, restores>>

downloadOrderPDF(r) == DpFetch(r) \/ DpRetry(r) \/ DpItems(r) \/ DpPdf(r)

----------------------------------------------------------------------------
\* Specifications.

Receive(r) ==
  \/ ReceiveCreateOrder(r)
  \/ ReceiveCancelOrder(r)
  \/ ReceiveUpdateOrderStatus(r)
  \/ ReceiveUpdatePaymentStatus(r)
  \/ ReceiveRefundTransaction(r)

Next ==
  \E r \in Req :
    \/ Receive(r)
    \/ createOrder(r)
    \/ cancelOrder(r)
    \/ updateOrderStatus(r)
    \/ updatePaymentStatus(r)
    \/ refundTransaction(r)

\* The server's clock passes midnight.
Midnight ==
  /\ today < cfg.days
  /\ today' = today + 1
  /\ UNCHANGED <<cfg, stock, in_stock, orders, order_items, transactions, req, loc,
                 log, decs, restores>>

\* The handlers, over more than one day.
NextDays == Next \/ Midnight

\* The handlers and the public tracking endpoint.
NextTracking ==
  \/ Next
  \/ \E r \in Req : ReceiveTrackOrder(r) \/ trackOrder(r)

\* The handlers and every endpoint that reports orders.
NextReading ==
  \/ NextTracking
  \/ \E r \in Req :
       \/ ReceiveGetAllOrders(r) \/ getAllOrders(r)
       \/ ReceiveGetOrderById(r) \/ getOrderById(r)
       \/ ReceiveDownloadOrderPDF(r) \/ downloadOrderPDF(r)

\* A createOrder request as the storefront sends it: no order_number, a
\* delivery address, a positive total and no subtotal of its own.
Body(items, pre, method, ref, cust, coupon) ==
  [IdleReq EXCEPT !.kind = "createOrder", !.items = items, !.is_pre_order = pre,
                  !.payment_method = method, !.payment_reference = ref,
                  !.cust = cust, !.coupon = coupon, !.delivery_address = TRUE,
                  !.total = 1]

\* The same request from a client that numbers its orders itself.
Numbered(body) == [body EXCEPT !.order_number = [prefix |-> "WEB-", digits |-> <<>>]]

\* Orders of one line of each quantity, and one order of two lines.
ItemLists ==
  {<<Item(p, q)>> : p \in Products, q \in 1..MaxQty}
    \cup {<<Item(p, 1), Item(p, 1)>> : p \in Products}

\* Stock handling: orders of one or two lines and a pre-order by a logged-in
\* customer, the RPC deployed or not; only the insert of the items may fail.
StockCfg(rpc) ==
  [rpc |-> rpc, requests |-> MaxReq, inflight |-> MaxInFlight, faulty |-> {"items"},
   bodies |-> {Numbered(Body(items, FALSE, "cash_on_delivery", None, "user", FALSE)) :
                 items \in ItemLists}
              \cup {Body(<<Item("p1", 1)>>, TRUE, "cash_on_delivery", None, "user", FALSE),
                    Numbered(Body(<<Item("p1", 1)>>, FALSE, "paystack", "ref1", "user",
                                  TRUE))},
   emails |-> {None}, reasons |-> {None}, statuses |-> {"cancelled"},
   payment_statuses |-> {"refunded"}]

Init == \E rpc \in BOOLEAN : InitWith(StockCfg(rpc), <<>>)

Spec == Init /\ [][Next]_vars

\* Payments: one-line orders paid on delivery or through Paystack with a
\* reference the webhook may have recorded already; the transaction write and
\* the insert of the items may fail.
PaymentCfg ==
  [rpc |-> FALSE, requests |-> MaxReq, inflight |-> MaxInFlight,
   faulty |-> {"items", "transaction", "refund_order"},
   bodies |-> {Body(<<Item("p1", 1)>>, FALSE, "cash_on_delivery", None, "user", FALSE),
               Numbered(Body(<<Item("p1", 1)>>, FALSE, "paystack", "ref1", "user",
                             TRUE))},
   emails |-> {None}, reasons |-> {None}, statuses |-> {"cancelled", "shipped"},
   payment_statuses |-> {"paid", "failed"}]

InitPayment ==
  \E txs \in {<<>>, <<WebhookTransaction("ref1")>>} : InitWith(PaymentCfg, txs)

SpecPayment == InitPayment /\ [][Next]_vars

\* Failures: every call of createOrder may fail; a guest order with a coupon
\* and a pre-order without any email address.
FaultsCfg(rpc) ==
  [rpc |-> rpc, requests |-> MaxReqFaults, inflight |-> MaxInFlight,
   faulty |-> {"validate", "order", "items", "delete", "rpc", "fallback_read",
               "fallback_write", "transaction", "customer_email", "coupon",
               "admin_email", "notification"},
   bodies |-> {Numbered(Body(<<Item("p1", 2)>>, FALSE, "cash_on_delivery", None,
                             "guest", TRUE)),
               Body(<<Item("p1", 1)>>, TRUE, "paystack", "ref1", "anon", FALSE),
               Body(<<Item(MissingProduct, 1)>>, FALSE, "cash_on_delivery", None,
                    "guest", FALSE)},
   emails |-> {"A@X"}, reasons |-> {None}, statuses |-> {"cancelled"},
   payment_statuses |-> {"paid"}]

InitFaults == \E rpc \in BOOLEAN : InitWith(FaultsCfg(rpc), <<>>)

SpecFaults == InitFaults /\ [][Next]_vars

\* Intake: requests that validation must refuse next to requests it accepts,
\* with and without an order number of their own, over two days; the query for
\* the last order number and the insert of the items may fail.
Plain == Body(<<Item("p1", 1)>>, FALSE, "cash_on_delivery", None, "user", FALSE)

Refused ==
  {[Plain EXCEPT !.items = <<>>],
   [Plain EXCEPT !.delivery_address = FALSE],
   [Plain EXCEPT !.total = 0],
   [Plain EXCEPT !.total = -1],
   [Plain EXCEPT !.items = <<Item(None, 1)>>],
   [Plain EXCEPT !.items = <<Item("", 1)>>],
   [Plain EXCEPT !.items = <<Item("p1", 1), Item(" ", 1)>>],
   [Plain EXCEPT !.items = <<Item("p1", 1), Item(MissingProduct, 1)>>],
   [Plain EXCEPT !.discount = 6],
   [Plain EXCEPT !.delivery_fee = MaxTotal],
   [Plain EXCEPT !.order_number = OrderNumber(1, 1), !.subtotal = MaxTotal + 1]}

Accepted ==
  {Plain,
   [Plain EXCEPT !.total = 7],
   [Plain EXCEPT !.subtotal = MaxTotal - 3, !.delivery_fee = 2, !.tax = 2,
                 !.discount = 1, !.cust = "guest", !.payment_method = "bank_transfer",
                 !.payment_reference = "ref2"],
   [Body(<<Item("p1", 1)>>, FALSE, "paystack", "ref1", "user", TRUE)
      EXCEPT !.order_number = OrderNumber(MaxSequence, 1)],
   Numbered(Body(<<Item("p1", 1)>>, TRUE, "paystack", None, "user", FALSE))}

IntakeCfg ==
  [rpc |-> FALSE, requests |-> MaxReqFaults, inflight |-> MaxInFlight,
   days |-> MaxDays, faulty |-> {"items", "number", "restore_read", "restore_write"},
   bodies |-> Refused \cup Accepted,
   emails |-> {None, "b@x", "A@X"}, reasons |-> {None, "changed my mind"},
   statuses |-> {"cancelled"},
   payment_statuses |-> {"failed", "unpaid", None}]

InitIntake == InitWith(IntakeCfg, <<>>)

SpecIntake == InitIntake /\ [][NextDays]_vars

\* Tracking: a guest order numbered by the server and a user's order numbered
\* by its client, tracked by order number and by id, with the guest's email in
\* capitals, with another email, and with an email that is not a string.
TrackingCfg ==
  [rpc |-> FALSE, requests |-> MaxReq, inflight |-> MaxInFlight, faulty |-> {"items"},
   bodies |-> {Body(<<Item("p1", 1)>>, FALSE, "cash_on_delivery", None, "guest", FALSE),
               Numbered(Body(<<Item("p1", 1)>>, FALSE, "paystack", "ref1", "user",
                             FALSE))},
   emails |-> {"A@X"}, reasons |-> {None}, statuses |-> {"cancelled"},
   payment_statuses |-> {"paid"},
   keys |-> {[NoKey EXCEPT !.number = Numbered(Plain).order_number],
             [NoKey EXCEPT !.number = OrderNumber(1, 1)],
             [NoKey EXCEPT !.number = OrderNumber(MaxSequence, 1)],
             [NoKey EXCEPT !.id = 1]},
   track_emails |-> {"A@X", "b@x", NotAString}]

InitTracking == InitWith(TrackingCfg, <<>>)

SpecTracking == InitTracking /\ [][NextTracking]_vars

\* Reading: pre-orders with and without a shipping option and an arrival date,
\* an ordinary order, and an ordinary order whose delivery_address carries an
\* is_pre_order key of its own, read back through the four endpoints.
PreOrder ==
  [Numbered(Body(<<Item("p1", 1)>>, TRUE, "paystack", "ref1", "user", FALSE))
     EXCEPT !.pre_order_shipping_option = "air_freight",
            !.estimated_arrival_date = "2026-02-01"]

ReadingCfg ==
  [rpc |-> FALSE, requests |-> MaxReq, inflight |-> MaxInFlight,
   faulty |-> {"items"},
   bodies |-> {PreOrder,
               [PreOrder EXCEPT !.pre_order_shipping_option = None,
                                !.estimated_arrival_date = None],
               [PreOrder EXCEPT !.is_pre_order = FALSE],
               Plain,
               [Numbered(Plain) EXCEPT !.da_is_pre_order = TRUE]},
   emails |-> {None}, reasons |-> {None}, statuses |-> {"cancelled"},
   payment_statuses |-> {"paid"},
   keys |-> {[NoKey EXCEPT !.id = 1]},
   track_emails |-> {"u@x", "b@x"},
   user_ids |-> {None, "u1"}]

InitReading == InitWith(ReadingCfg, <<>>)

SpecReading == InitReading /\ [][NextReading]_vars

----------------------------------------------------------------------------
\* Accounting of stock over the order lines.

Lines == UNION {{<<o, i>> : i \in DOMAIN decs[o]} : o \in Req}

LineItem(l) == order_items[l[1]][l[2]]

RECURSIVE Sum(_, _)
Sum(f, S) ==
  IF S = {} THEN 0
  ELSE LET x == CHOOSE y \in S : TRUE IN f[x] + Sum(f, S \ {x})

\* Units taken from product p by the decrements applied so far.
Applied(p) ==
  Sum([l \in Lines |-> IF LineItem(l).product_id = p
                       THEN Len(decs[l[1]][l[2]]) * LineItem(l).quantity ELSE 0],
      Lines)

NoRestore == \A l \in Lines : restores[l[1]][l[2]] = 0

NoStaleWrite == \A l \in Lines : decs[l[1]][l[2]] \notin {<<"fallback_stale">>}

\* The request whose step this is.
StepOf(r) == loc'[r] # loc[r]

----------------------------------------------------------------------------
\* A step that takes a line's quantity from stock is a stock step of the
\* createOrder request that inserted the order; any other change of
\* stock_quantity is a restoration by cancelOrder or updateOrderStatus.
C1_DecrementStep ==
  /\ \A l \in Lines :
       decs'[l[1]][l[2]] # decs[l[1]][l[2]] =>
         LET o == l[1]
             item == LineItem(l)
         IN /\ StepOf(o)
            /\ req[o].kind = "createOrder"
            /\ loc[o].pc \in {"co_rpc", "co_fb_write"}
            /\ loc[o].i = l[2]
            /\ stock'[item.product_id] =
                 (IF loc[o].pc = "co_rpc" THEN stock[item.product_id]
                  ELSE loc[o].currentStock) - item.quantity
  /\ \A p \in Products :
       stock'[p] # stock[p] =>
         \E r \in Req :
           /\ StepOf(r)
           /\ \/ r \in DOMAIN decs /\ decs'[r] # decs[r]
              \/ /\ req[r].kind \in {"cancelOrder", "updateOrderStatus"}
                 /\ restores'[req[r].id] # restores[req[r].id]

C2_RestoredAtMostOnce == \A l \in Lines : restores[l[1]][l[2]] <= 1

\* A step of a request on a pre-order leaves the products alone.
C3_PreOrderStep ==
  \A r \in Req :
    LET o == IF req[r].kind = "createOrder" THEN r ELSE req[r].id
    IN ( /\ StepOf(r)
         /\ req[r].kind \in {"createOrder", "cancelOrder", "updateOrderStatus"}
         /\ req[o].is_pre_order )
       => UNCHANGED <<stock, in_stock>>

\* C3: no step of the createOrder request of a pre-order, and no step of a
\* cancelOrder or updateOrderStatus request on it, changes stock_quantity or
\* in_stock.
C3_PreOrderStockUntouched == [][C3_PreOrderStep]_vars

\* C4: decrements are never taken twice, so stock is at least the initial stock
\* less the quantities applied; it is exactly that as long as no fallback
\* update was written from an out-of-date read, and higher once one was: that
\* is the race between order placements when the RPC is unavailable.
C4_FallbackRace ==
  NoRestore =>
    \A p \in Products :
      /\ stock[p] >= InitStock - Applied(p)
      /\ NoStaleWrite <=> stock[p] = InitStock - Applied(p)

\* Two orders placed through the fallback, both updates applied, and the stock
\* higher than the initial stock less the two quantities.
C4_Witness ==
  /\ ~cfg.rpc /\ NoRestore
  /\ \E o1, o2 \in Req, p \in Products :
       /\ o1 # o2
       /\ loc[o1].resp = 200 /\ loc[o2].resp = 200
       /\ req[o1].items = <<Item(p, 1)>> /\ req[o2].items = <<Item(p, 1)>>
       /\ decs[o1][1] \in {<<"fallback">>, <<"fallback_stale">>}
       /\ decs[o2][1] \in {<<"fallback">>, <<"fallback_stale">>}
       /\ stock[p] > InitStock - 2

----------------------------------------------------------------------------
\* What a request did, read off its log.

Has(r, step) == \E i \in 1..Len(log[r]) : log[r][i].step = step

Ok(r, step) == \E i \in 1..Len(log[r]) : log[r][i].step = step /\ log[r][i].ok

Failed(r, step) == \E i \in 1..Len(log[r]) : log[r][i].step = step /\ ~log[r][i].ok

Count(r, step) == Cardinality({i \in 1..Len(log[r]) : log[r][i].step = step})

Created == {r \in Req : req[r].kind = "createOrder"}

Refunds == {r \in Req : req[r].kind = "refundTransaction"}

\* C5: every transaction linked to an order has the payment_status of that
\* order.
C5_TransactionMirrorsOrder ==
  \A t \in 1..Len(transactions) :
    LET o == transactions[t].order_id
    IN (o # 0 /\ orders[o].present) =>
         transactions[t].payment_status = orders[o].payment_status

----------------------------------------------------------------------------
ItemsFailed(r) == r \in Created /\ Failed(r, "items")

\* No stock decrement, no transaction created or linked, no email, no
\* notification by request r.
NothingAfterItems(r) ==
  /\ \A i \in 1..Len(log[r]) :
       log[r][i].step \notin {"stock", "oos_alert", "transaction", "customer_email",
                             "coupon", "admin_email", "notification"}
  /\ decs[r] = <<>> /\ order_items[r] = <<>>
  /\ \A t \in 1..Len(transactions) :
       transactions[t].by # r /\ transactions[t].order_id # r

\* C6 as stated: when the insert of the order items fails the handler deletes
\* the order row, answers with an error and does nothing else; no order row of
\* the request remains.
C6_NoOrderRemains ==
  \A r \in Req :
    ItemsFailed(r) =>
      /\ NothingAfterItems(r)
      /\ loc[r].pc = "done" => (loc[r].resp = 500 /\ ~orders[r].present)

\* C6, amended: when the insert of the order items fails the handler issues
\* the delete of the order row, answers with an error and does nothing else;
\* the order row is gone if the delete succeeded, and is left behind, without
\* items, if the delete failed.
C6_OrphanDeletedUnlessDeleteFails ==
  \A r \in Req :
    ItemsFailed(r) =>
      /\ NothingAfterItems(r)
      /\ loc[r].pc = "done" =>
           /\ loc[r].resp = 500
           /\ Has(r, "delete")
           /\ orders[r].present <=> Failed(r, "delete")

\* The items failed to insert, the delete went through, the request is answered.
C6_Witness ==
  \E r \in Req :
    /\ ItemsFailed(r) /\ Ok(r, "delete") /\ loc[r].pc = "done"
    /\ ~orders[r].present

----------------------------------------------------------------------------
\* The place of each step in the sequence of createOrder.
Rank(step) ==
  CASE step = "validate" -> 1
    [] step = "number" -> 2
    [] step = "totals" -> 3
    [] step = "order" -> 4
    [] step = "items" -> 5
    [] step \in {"stock", "oos_alert", "delete"} -> 6
    [] step = "transaction" -> 7
    [] step = "customer_email" -> 8
    [] step = "coupon" -> 9
    [] step = "admin_email" -> 10
    [] step = "notification" -> 11

\* C7: the steps of createOrder complete in the order validation, order
\* insert, items insert, stock decrement (one per line, none for a pre-order),
\* transaction, customer email, admin email, dashboard notification; a
\* request answered with success has gone through each of them once.
C7_StepsInOrder ==
  \A r \in Created :
    /\ \A i, j \in 1..Len(log[r]) :
         i < j =>
           /\ Rank(log[r][i].step) <= Rank(log[r][j].step)
           /\ Rank(log[r][i].step) = Rank(log[r][j].step) =>
                log[r][i].step \in {"stock", "oos_alert"}
    /\ loc[r].resp = 200 =>
         /\ \A step \in {"validate", "order", "items", "transaction", "admin_email",
                         "notification"} : Count(r, step) = 1
         /\ Count(r, "stock") =
              IF req[r].is_pre_order THEN 0 ELSE Len(req[r].items)
         /\ Count(r, "customer_email") =
              IF CustomerEmail(req[r].cust) # None THEN 1 ELSE 0

\* An order with stock to take and a customer to write to, answered with success.
C7_Witness ==
  \E r \in Created :
    /\ loc[r].resp = 200 /\ ~req[r].is_pre_order
    /\ Has(r, "stock") /\ Has(r, "customer_email") /\ Has(r, "coupon")

----------------------------------------------------------------------------
Persisted(r) == r \in Created /\ Ok(r, "items")

\* A step of a createOrder request whose order and items are stored undoes
\* nothing: the rows stay, stock is not given back, no transaction is removed.
C8_NothingUndone ==
  \A r \in Req :
    (StepOf(r) /\ Persisted(r)) =>
      /\ orders'[r] = orders[r] /\ order_items' = order_items
      /\ \A p \in Products : stock'[p] <= stock[p]
      /\ Len(transactions') >= Len(transactions)
      /\ \A i \in DOMAIN decs[r] : Len(decs'[r][i]) >= Len(decs[r][i])

\* C8: once the order and its items are stored, createOrder answers with
\* success whatever fails afterwards, the order and its items remain stored
\* and no earlier step is undone.
C8_FailuresOnlyLogged ==
  /\ [](\A r \in Req :
          Persisted(r) =>
            /\ orders[r].present
            /\ order_items[r] = OrderItemRows(r, req[r].items)
            /\ loc[r].pc = "done" => loc[r].resp = 200)
  /\ [][C8_NothingUndone]_vars

\* Success although the stock update, the transaction, both emails, the coupon
\* and the notification all failed.
C8_Witness ==
  \E r \in Req :
    /\ Persisted(r) /\ loc[r].resp = 200
    /\ \A step \in {"stock", "transaction", "customer_email", "coupon",
                    "admin_email", "notification"} : Failed(r, step)

----------------------------------------------------------------------------
\* Rows inserted by request r.
Mine(r) == {t \in 1..Len(transactions) : transactions[t].by = r}

\* Row t carries the order of r, or that of a later createOrder with the same
\* reference that found the row and linked it to its own order.
TiedTo(t, r) ==
  \/ transactions[t].order_id = r
  \/ \E r2 \in Created \ {r} : loc[r2].found = t /\ Ok(r2, "transaction")

\* The transaction step of r did what it is meant to: the one row found by the
\* reference is linked and none inserted, or else one row is inserted.
Linked(r) ==
  IF loc[r].found # 0
  THEN /\ Mine(r) = {}
       /\ req[r].payment_reference # None
       /\ transactions[loc[r].found].transaction_reference = req[r].payment_reference
       /\ TiedTo(loc[r].found, r)
  ELSE /\ Cardinality(Mine(r)) = 1
       /\ \A t \in Mine(r) : TiedTo(t, r)

----------------------------------------------------------------------------
\* What each step of a refundTransaction request may do.
C10_RefundStep ==
  \A r \in Refunds :
    StepOf(r) =>
      LET t == req[r].id
      IN /\ loc[r].pc = "rf_fetch" =>
              IF transactions[t].payment_status = "paid"
              THEN loc'[r].pc = "rf_update" /\ loc'[r].resp = 0
              ELSE loc'[r].pc = "done" /\ loc'[r].resp = 400
         /\ loc'[r].resp = 400 =>
              UNCHANGED <<transactions, orders, order_items, stock, in_stock>>
         /\ loc[r].pc = "rf_update" =>
              transactions' = [transactions EXCEPT ![t].payment_status = "refunded",
                                                   ![t].status = "refunded"]

\* C10: refundTransaction answers 400 and changes nothing unless the
\* transaction is 'paid'; on a paid one it sets payment_status and status of
\* the transaction to 'refunded'.
C10_RefundOnlyFromPaid ==
  /\ [](\A r \in Refunds :
          loc[r].resp = 200 =>
            /\ transactions[req[r].id].payment_status = "refunded"
            /\ transactions[req[r].id].status = "refunded")
  /\ [][C10_RefundStep]_vars

\* One refund of a paid transaction went through, a second one was refused.
C10_Witness ==
  \E r1, r2 \in Refunds :
    /\ req[r1].id = req[r2].id
    /\ loc[r1].resp = 200 /\ loc[r2].resp = 400

----------------------------------------------------------------------------
\* Orders created today.
Today == {o \in Req : orders[o].present /\ orders[o].day = today}

\* The sequence the claim gives the next order of today.
NextSequence ==
  IF Today = {} THEN 1
  ELSE IF Matches(LastOrderNumber) THEN ParseInt(LastOrderNumber) + 1
  ELSE 0

\* The insert of an order whose request brought no order_number stores 'ORD-',
\* three digits and a date; when that date is still today's, the three digits
\* are the sequence that follows the newest order of today.
C11_InsertStep ==
  \A r \in Req :
    ( /\ req[r].kind = "createOrder" /\ req[r].order_number = NoNumber
      /\ ~orders[r].present /\ orders'[r].present )
    => LET number == orders'[r].order_number
       IN /\ number.prefix = "ORD-" /\ Len(number.digits) = 9
          /\ \E day \in 1..today : SubSeq(number.digits, 4, 9) = DateStr(day)
          /\ SubSeq(number.digits, 4, 9) = DateStr(today) =>
               SubSeq(number.digits, 1, 3) = PadStart(Digits(NextSequence), 3, 0)

\* C11: an order created without order_number is stored with 'ORD-', a
\* sequence of three digits and the date as DDMMYY; the sequence is 001 when no
\* order was created today and otherwise one more than the sequence of the
\* order created last today.
C11_SequentialWithinDay == [][C11_InsertStep]_vars

----------------------------------------------------------------------------
\* What the step of an updatePaymentStatus request with a value outside the
\* four, or with none, may do.
C12_RefusalStep ==
  \A r \in Req :
    ( /\ StepOf(r) /\ req[r].kind = "updatePaymentStatus"
      /\ req[r].status \notin {"pending", "paid", "failed", "refunded"} )
    => /\ loc'[r].resp = 400
       /\ UNCHANGED <<orders, order_items, transactions, stock, in_stock>>

\* C12: the payment_status of every order is one of pending, paid, failed and
\* refunded; an updatePaymentStatus request with another value or none is
\* answered 400 and leaves the order as it was.
C12_PaymentStatusDomain ==
  /\ [](\A o \in Req :
          orders[o].present =>
            orders[o].payment_status \in {"pending", "paid", "failed", "refunded"})
  /\ [][C12_RefusalStep]_vars

\* A request with a value outside the four, refused, on a stored order.
C12_Witness ==
  \E r \in Req :
    /\ req[r].kind = "updatePaymentStatus" /\ req[r].status = "unpaid"
    /\ loc[r].resp = 400
    /\ orders[req[r].id].present /\ orders[req[r].id].payment_status = "paid"

----------------------------------------------------------------------------
\* order_items changes in one way only: the createOrder request that inserted
\* order o inserts the items of o, once.
C13_ItemsStep ==
  \A o \in Req :
    order_items'[o] # order_items[o] =>
      /\ order_items[o] = <<>>
      /\ StepOf(o) /\ req[o].kind = "createOrder" /\ loc[o].pc = "co_insert_items"

\* C13: every order item belongs to the order inserted by the request that
\* created the item and carries the product_id, product_name, unit_price and
\* quantity of that request; no later step of any handler changes it or moves
\* it to another order.
C13_ItemsBelongAndStay ==
  /\ [](\A o \in Req :
          order_items[o] # <<>> =>
            /\ req[o].kind = "createOrder" /\ orders[o].present
            /\ Len(order_items[o]) = Len(req[o].items)
            /\ \A i \in DOMAIN order_items[o] :
                 /\ order_items[o][i].order_id = o
                 /\ order_items[o][i].product_id = req[o].items[i].product_id
                 /\ order_items[o][i].product_name = req[o].items[i].product_name
                 /\ order_items[o][i].unit_price = req[o].items[i].unit_price
                 /\ order_items[o][i].quantity = req[o].items[i].quantity)
  /\ [][C13_ItemsStep]_vars

\* An order with its item, cancelled by a later request that put the stock back.
C13_Witness ==
  \E o, r \in Req :
    /\ order_items[o] # <<>> /\ orders[o].status = "cancelled"
    /\ req[r].kind \in {"cancelOrder", "updateOrderStatus"} /\ req[r].id = o
    /\ loc[r].resp = 200 /\ restores[o][1] = 1

----------------------------------------------------------------------------
\* Every decrement applied so far went through the RPC.
OnlyRpc == \A l \in Lines : decs[l[1]][l[2]] \in {<<>>, <<"rpc">>}

----------------------------------------------------------------------------
\* What each step of an updateOrderStatus request on a stored order may do: the
\* fetch goes on to restore exactly under the four conditions, a restoring
\* write adds the item's quantity to the stock of its product, and no other
\* step changes a product.
C15_StatusStep ==
  \A r \in Req :
    (StepOf(r) /\ req[r].kind = "updateOrderStatus") =>
      LET o == req[r].id
      IN /\ (loc[r].pc = "us_fetch" /\ orders[o].present) =>
              ( loc'[r].pc = "us_read"
                <=> /\ req[r].status = "cancelled"
                    /\ orders[o].status # "cancelled"
                    /\ ~req[o].is_pre_order
                    /\ orders[o].payment_status # "refunded"
                    /\ \E i \in DOMAIN order_items[o] :
                         ItemRestorable(order_items[o][i]) )
         /\ loc[r].pc = "us_write" =>
              LET item == order_items[o][loc[r].i]
              IN stock' = [stock EXCEPT ![item.product_id] = @ + item.quantity]
         /\ loc[r].pc # "us_write" => UNCHANGED <<stock, in_stock>>

\* C15: updateOrderStatus restores stock exactly when the new status is
\* 'cancelled', the previous status was not, the order is not a pre-order and
\* its payment_status is not 'refunded'; then every item with a product_id and
\* a quantity adds its quantity to the stock_quantity of its product, and in
\* every other case no product is changed.
C15_RestoresExactlyWhen == [][C15_StatusStep]_vars

----------------------------------------------------------------------------
\* The request is one that must be refused: no order line, no delivery address,
\* no positive total, a blank or unknown product id, or amounts that add up to
\* less than nothing or to more than the ceiling.
Invalid(request) ==
  LET lines == {request.items[i] : i \in 1..Len(request.items)}
      subtotal == IF request.subtotal # 0 THEN request.subtotal
                  ELSE Sum([i \in DOMAIN request.items |->
                              request.items[i].unit_price * request.items[i].quantity],
                           DOMAIN request.items)
      amount == subtotal + request.delivery_fee + request.tax - request.discount
  IN \/ request.items = <<>>
     \/ ~request.delivery_address
     \/ request.total <= 0
     \/ \E l \in lines : l.product_id \in {None, "", " "}
     \/ \E l \in lines : l.product_id \notin Products
     \/ amount < 0
     \/ amount > MaxTotal

\* Nothing of request r is stored, sent or taken from the stock.
NothingPersisted(r) ==
  /\ ~orders[r].present
  /\ order_items[r] = <<>>
  /\ decs[r] = <<>>
  /\ Mine(r) = {}
  /\ \A t \in 1..Len(transactions) : transactions[t].order_id # r
  /\ \A i \in 1..Len(log[r]) : log[r][i].step \in {"validate", "number", "totals"}

\* C16: a createOrder request that is invalid (no order line, no delivery
\* address, total missing or not positive, a blank product id, a product id
\* that is in no row of products, a computed total below 0 or above 100000) is
\* answered with 400, and at no moment does it leave an order, an order item, a
\* stock change, a transaction, an email or a notification.
C16_InvalidRejectedBeforePersisting ==
  \A r \in Created :
    Invalid(req[r]) =>
      /\ NothingPersisted(r)
      /\ loc[r].pc \in {"co_validate", "co_number", "done"}
      /\ loc[r].pc = "done" => loc[r].resp = 400

\* A request is refused at the last check, the ceiling of the computed total,
\* after its order number was generated and while another order is stored.
C16_Witness ==
  \E r \in Created :
    /\ Invalid(req[r]) /\ loc[r].pc = "done" /\ loc[r].resp = 400
    /\ req[r].delivery_fee = MaxTotal
    /\ Has(r, "number") /\ Failed(r, "totals")
    /\ \E o \in Created \ {r} : orders[o].present

----------------------------------------------------------------------------
\* The two requests are the same but for the total they send.
DifferOnlyInTotal(a, b) ==
  /\ a.total # b.total /\ a.total > 0 /\ b.total > 0
  /\ [a EXCEPT !.total = b.total] = b

\* C17: the total of a stored order is computed, total = subtotal +
\* shipping_fee + tax - discount over the amounts stored with it, and is never
\* the total of the request: two requests that differ only in their positive
\* total store the same total.  The transaction inserted for the order carries
\* that amount.
C17_TotalIsCalculated ==
  /\ \A o \in Created :
       orders[o].present =>
         /\ orders[o].total = orders[o].subtotal + orders[o].shipping_fee
                                + orders[o].tax - orders[o].discount
         /\ orders[o].shipping_fee = req[o].delivery_fee
         /\ orders[o].tax = req[o].tax
         /\ orders[o].discount = req[o].discount
         /\ req[o].subtotal # 0 => orders[o].subtotal = req[o].subtotal
         /\ \A t \in Mine(o) : transactions[t].amount = orders[o].total
  /\ \A a, b \in Created :
       (orders[a].present /\ orders[b].present
          /\ DifferOnlyInTotal(req[a], req[b])) =>
         orders[a].total = orders[b].total

\* Two orders are stored whose requests differ only in the total sent; neither
\* total is the stored one, and the transaction of the first is inserted.
C17_Witness ==
  \E a, b \in Created :
    /\ orders[a].present /\ orders[b].present
    /\ DifferOnlyInTotal(req[a], req[b])
    /\ orders[a].total \notin {req[a].total, req[b].total}
    /\ \E t \in Mine(a) : transactions[t].order_id = a

----------------------------------------------------------------------------
\* The payment_status a new order is to have.
PaidOnArrival(request) ==
  request.payment_method = "paystack" /\ request.payment_reference # None

\* The request inserts its order in this step; it appends a row to transactions
\* in this step.
InsertsOrder(r) == ~orders[r].present /\ orders'[r].present

InsertsTransaction(r) ==
  /\ Len(transactions') = Len(transactions) + 1
  /\ transactions'[Len(transactions')].by = r

\* C18: the order a createOrder request inserts has status 'pending', and
\* payment_status 'paid' exactly when payment_method is 'paystack' and a
\* payment_reference came with the request, 'pending' otherwise; a transaction
\* the same request inserts has that payment_status as its status and as its
\* payment_status.
C18_InsertStep ==
  \A r \in Created :
    LET expected == IF PaidOnArrival(req[r]) THEN "paid" ELSE "pending"
    IN /\ InsertsOrder(r) =>
            /\ orders'[r].status = "pending"
            /\ orders'[r].payment_status = expected
       /\ InsertsTransaction(r) =>
            /\ transactions'[Len(transactions')].status = expected
            /\ transactions'[Len(transactions')].payment_status = expected

C18_InitialPaymentStatus == [][C18_InsertStep]_vars

\* Orders arrived paid and unpaid, the unpaid one with a reference but not by
\* paystack, and each request inserted its transaction.
C18_Witness ==
  \E a, b \in Created :
    /\ PaidOnArrival(req[a]) /\ orders[a].present
    /\ req[b].payment_method # "paystack" /\ req[b].payment_reference # None
    /\ orders[b].present
    /\ \E t \in Mine(a) : transactions[t].payment_status = "paid"
    /\ \E t \in Mine(b) : transactions[t].payment_status = "pending"

----------------------------------------------------------------------------
\* The cancelOrder request r does not prove that the guest order is its own:
\* it brings no email, or one that differs from the order's shipping email by
\* more than the case of its letters.
Unverified(r) ==
  LET o == req[r].id
      orderEmail == IF orders[o].cust = "guest" THEN "a@x" ELSE None
  IN /\ req[r].kind = "cancelOrder"
     /\ orders[o].present /\ orders[o].user_id = None
     /\ \/ req[r].email = None
        \/ orderEmail = None
        \/ req[r].email \notin {"a@x", "A@X"}

C19_CancelStep ==
  \A r \in Req :
    (StepOf(r) /\ loc[r].pc = "ca_fetch" /\ Unverified(r)) =>
      /\ loc'[r].pc = "done"
      /\ loc'[r].resp = IF req[r].email = None THEN 400 ELSE 403
      /\ UNCHANGED <<orders, stock, in_stock, order_items, transactions, log,
                     restores>>

\* C19: cancelOrder on an order without user_id answers 400 when the request
\* brings no email and 403 when its email is not, up to case, the email of the
\* order's shipping address; in both cases the handler ends there: status,
\* notes and stock are as they were and no email is sent.
C19_GuestOwnershipFirst ==
  /\ [][C19_CancelStep]_vars
  /\ [](\A r \in Req :
          (req[r].kind = "cancelOrder" /\ loc[r].pc = "done"
             /\ loc[r].resp \in {400, 403}) => log[r] = <<>>)

\* A guest order was refused cancellation for a wrong email while it had
\* taken stock; it is still pending and its stock is still taken.
C19_Witness ==
  \E r \in Req :
    /\ req[r].kind = "cancelOrder" /\ loc[r].pc = "done" /\ loc[r].resp = 403
    /\ req[r].email = "b@x" /\ req[r].cancellation_reason # None
    /\ orders[req[r].id].present /\ orders[req[r].id].cust = "guest"
    /\ orders[req[r].id].status = "pending"
    /\ decs[req[r].id] # <<>> /\ decs[req[r].id][1] # <<>>
    /\ stock["p1"] < InitStock

----------------------------------------------------------------------------
\* The stored orders that the order_number_or_id of tracking request r names.
Designated(r) ==
  {o \in Req : /\ orders[o].present
               /\ \/ orders[o].order_number = req[r].order_number_or_id.number
                  \/ o = req[r].order_number_or_id.id}

\* The email of request r is, up to the case of its letters, the email of the
\* user of order o or the email of its address.
OwnerOf(r, o) ==
  LET same(a, b) == {a, b} \subseteq {"a@x", "A@X"} \/ {a, b} \subseteq {"u@x", "U@X"}
  IN \/ req[o].cust = "user" /\ same(req[r].email, "u@x")
     \/ req[o].cust = "guest" /\ same(req[r].email, "a@x")

C20_TrackStep ==
  \A r \in Req :
    (StepOf(r) /\ req[r].kind = "trackOrder"
       /\ req[r].order_number_or_id # NoKey /\ req[r].email # None) =>
      LET owned == {o \in Designated(r) : OwnerOf(r, o)}
      IN /\ loc'[r].data # 0 => loc'[r].data \in owned /\ loc'[r].resp = 200
         /\ (owned = {} /\ loc'[r].pc = "done") =>
               loc'[r].resp = 404 /\ loc'[r].data = 0
         /\ (/\ owned # {} /\ Cardinality(Designated(r)) = 1
             /\ \/ /\ loc[r].pc = "tr_by_number"
                   /\ req[r].order_number_or_id.number # NoNumber
                \/ /\ loc[r].pc = "tr_by_id"
                   /\ req[r].order_number_or_id.id # 0) =>
               loc'[r].pc = "done" /\ loc'[r].resp = 200 /\ loc'[r].data \in owned

\* C20: trackOrder returns an order only to a request whose email is, up to
\* case, that of the order's user or of its address, whatever the order's
\* status; any other email gets the answer given for an order number or id
\* that names no order: 404 'Order not found' and no data.
C20_MismatchLooksLikeAbsence == [][C20_TrackStep]_vars

----------------------------------------------------------------------------
\* The orders table after the payment_status of order o is set to 'refunded'.
OrderRefunded(o) == [orders EXCEPT ![o].payment_status = "refunded"]

\* Steps of refundTransaction leave every order's status and all stock alone.
RefundFrame(r) ==
  /\ UNCHANGED <<stock, in_stock, order_items>>
  /\ \A o \in Req : [orders'[o] EXCEPT !.payment_status = orders[o].payment_status]
                      = orders[o]

\* The step with which refund r answers 200: the order of its transaction is
\* pending or cancelled and is set to 'refunded', or no order is changed.
C21_SuccessStep ==
  \A r \in Refunds :
    StepOf(r) =>
      /\ RefundFrame(r)
      /\ (loc'[r].pc = "done" /\ loc'[r].resp = 200) =>
           LET o == transactions[req[r].id].order_id
           IN IF o # 0 /\ orders[o].present
                   /\ orders[o].status \in {"cancelled", "pending"}
              THEN orders' = OrderRefunded(o)
              ELSE orders' = orders

\* C21 as stated: a successful refundTransaction sets the payment_status of the
\* transaction's order to 'refunded' exactly when the transaction has an order
\* whose status is 'cancelled' or 'pending', leaves an order of any other
\* status unchanged, and never changes an order's status or any stock.
C21_RefundSetsOrderIff == [][C21_SuccessStep]_vars

C21_RefundStep ==
  \A r \in Refunds :
    StepOf(r) =>
      LET t == req[r].id
          o == transactions[t].order_id
          order == loc[r].existing
      IN /\ RefundFrame(r)
         /\ loc[r].pc = "rf_fetch" =>
              /\ orders' = orders
              /\ (loc'[r].pc = "rf_update" /\ o # 0 /\ orders[o].present) =>
                   /\ loc'[r].existing.order_id = o
                   /\ loc'[r].existing.status = orders[o].status
              /\ (loc'[r].pc = "rf_update" /\ o = 0) => loc'[r].existing.order_id = 0
         /\ loc[r].pc = "rf_update" =>
              /\ orders' = orders
              /\ IF order.order_id # 0 /\ order.status \in {"cancelled", "pending"}
                 THEN loc'[r].pc = "rf_order"
                 ELSE loc'[r].pc = "done" /\ loc'[r].resp = 200
         /\ loc[r].pc = "rf_order" =>
              /\ loc'[r].pc = "done" /\ loc'[r].resp = 200
              /\ orders' \in {OrderRefunded(order.order_id), orders}

\* C21, amended: the order is the one fetched with the transaction and its
\* status the one fetched; when the transaction had an order then and that
\* status was 'cancelled' or 'pending', a successful refundTransaction sends
\* one update that sets the order's payment_status to 'refunded', whose
\* failure is not looked at; otherwise it changes no order.  It never changes
\* an order's status or any stock.
C21_RefundSetsFetchedOrder == [][C21_RefundStep]_vars

\* A paid transaction of a cancelled order was refunded and the order with it;
\* the order is still cancelled.
C21_Witness ==
  \E r \in Refunds :
    LET o == transactions[req[r].id].order_id
    IN /\ loc[r].pc = "done" /\ loc[r].resp = 200
       /\ o # 0 /\ loc[r].existing.order_id = o
       /\ loc[r].existing.status = "cancelled"
       /\ orders[o].status = "cancelled"
       /\ orders[o].payment_status = "refunded"

----------------------------------------------------------------------------
Readers == {"getOrderById", "getAllOrders", "trackOrder", "downloadOrderPDF"}

\* What a reader reports of order o is what the request that created o said.
RoundTrip(rec) ==
  LET request == req[rec.id]
  IN /\ rec.is_pre_order = request.is_pre_order
     /\ request.is_pre_order =>
          /\ rec.pre_order_shipping_option = request.pre_order_shipping_option
          /\ rec.estimated_arrival_date = request.estimated_arrival_date

\* C22: an order that createOrder stored for a request with is_pre_order true
\* is reported with is_pre_order true and with the request's
\* pre_order_shipping_option and estimated_arrival_date by getOrderById,
\* getAllOrders, trackOrder and in the data downloadOrderPDF hands to the PDF;
\* an order stored for a request without is_pre_order is reported with
\* is_pre_order false.
C22_PreOrderRoundTrip ==
  \A r \in Req :
    req[r].kind \in Readers => \A rec \in loc[r].reported : RoundTrip(rec)

----------------------------------------------------------------------------
\* Request r is at a write of stock_quantity and in_stock: the fallback of
\* createOrder, or the restoration of cancelOrder or updateOrderStatus.
StockWriter(r) == loc[r].pc \in {"co_fb_write", "ca_write", "us_write"}

C23_StockWriteStep ==
  \A r \in Req :
    (StepOf(r) /\ StockWriter(r)) =>
      \A p \in Products : in_stock'[p] <=> stock'[p] > 0

\* C23: after every write of a product's stock by the fallback of createOrder,
\* by cancelOrder or by updateOrderStatus, in whatever order their steps come,
\* the product has in_stock true exactly when its stock_quantity is above 0.
C23_InStockAgrees == [][C23_StockWriteStep]_vars

\* An order took the whole stock through the fallback, which left the product
\* out of stock, and its cancellation brought stock and flag back.
C23_Witness ==
  \E o \in Created :
    /\ orders[o].present /\ orders[o].status = "cancelled"
    /\ req[o].items = <<Item("p1", InitStock)>>
    /\ decs[o] = <<<<"fallback">>>> /\ restores[o] = <<1>>
    /\ stock["p1"] = InitStock /\ in_stock["p1"]

====
